---- MODULE Spec2Model ----
(***************************************************************************)
(* A model of the I/O and rendering layer of python-igraph's Graph class   *)
(* (src/package/__init__.py): format identification and the unified        *)
(* Read/write dispatch, the gzip-compressed GraphML codec, and the two     *)
(* rendering paths (write_svg and __plot__).                               *)
(*                                                                         *)
(* Python strings are sequences of one-character strings, so that          *)
(* str.lower, str.strip, str.split, os.path.splitext and file.readline are *)
(* computed and not assumed.  Python's None, where a string could stand,   *)
(* is PyNone.                                                              *)
(***************************************************************************)
EXTENDS Integers, Sequences, FiniteSets, TLC

\* ------------------------------------------------------------------------
\* Bounds of the model
\* ------------------------------------------------------------------------

\* The longest sniffed file, in lines (the sniffer reads at most three).
MaxLines == 3

\* The most temporary files left behind before the compressed codec's calls
\* stop
MaxLeftover == 2

\* Longest sequence of pickles written into one open stream
MaxDumps == 2

\* ------------------------------------------------------------------------
\* State
\* ------------------------------------------------------------------------

\* The dispatcher: a file system holding at most one file, and one call of
\* _identify_format, Read, write, read or write on it.
VARIABLES
  fs,      \* the file system: file name -> content (a string)
  pc,      \* "idle" before the call, "done" after it
  call,    \* the call made: operation and arguments
  res      \* what the call left behind (Outcome)

ioVars == <<fs, pc, call, res>>

\* The compressed GraphML codec, working on one path f
VARIABLES
  gzTarget,   \* the file at path f: [kind, level, data]
  gzTmp,      \* the temporary files that exist (names are numbers)
  gzWritten,  \* history: the graph the last write_graphmlz that returned
              \* normally wrote to f, NoGraph when f was rewritten since
  gzFailed,   \* history: the number of os.unlink calls that raised
  gzCall,     \* the last call: operation, arguments and injected faults
  gzRes       \* what it left behind

gzVars == <<gzTarget, gzTmp, gzWritten, gzFailed, gzCall, gzRes>>

\* Rendering (Graph.write_svg, Graph.__plot__): the call made and what it
\* emitted, in emission order, up to the point where it returned or raised
VARIABLES
  rdCall,     \* the render call and its arguments
  rdRes,      \* exception raised, file opened/closed, items emitted
  rdPrev      \* the call before this one and what it left

rdVars == <<rdCall, rdRes, rdPrev>>

\* Pickling (Graph.write_pickle) to a string, a file name or an open stream
VARIABLES
  pkFile,     \* the file at the name given: [exists, data]
  pkStream,   \* the caller's stream: [open, data]
  pkCall,     \* the last call and its arguments
  pkRes       \* what it left behind

pkVars == <<pkFile, pkStream, pkCall, pkRes>>

\* ------------------------------------------------------------------------
\* Python strings
\* ------------------------------------------------------------------------

PyNone == <<"None">>

UpperLetters ==
  <<"A","B","C","D","E","F","G","H","I","J","K","L","M",
    "N","O","P","Q","R","S","T","U","V","W","X","Y","Z">>

LowerLetters ==
  <<"a","b","c","d","e","f","g","h","i","j","k","l","m",
    "n","o","p","q","r","s","t","u","v","w","x","y","z">>

LowerChar(c) ==
  IF \E i \in DOMAIN UpperLetters : UpperLetters[i] = c
  THEN LowerLetters[CHOOSE i \in DOMAIN UpperLetters : UpperLetters[i] = c]
  ELSE c

UpperChar(c) ==
  IF \E i \in DOMAIN LowerLetters : LowerLetters[i] = c
  THEN UpperLetters[CHOOSE i \in DOMAIN LowerLetters : LowerLetters[i] = c]
  ELSE c

\* A mutant of StrLower: the extension is compared as it is written.
StrLowerCaseSensitive(s) == s

\* str.lower()
StrLower(s) == [i \in 1..Len(s) |-> LowerChar(s[i])]

\* str.upper(), used only to build file names
StrUpper(s) == [i \in 1..Len(s) |-> UpperChar(s[i])]

IsSpace(c) == c \in {" ", "\t", "\n"}

RECURSIVE LStrip(_)
LStrip(s) == IF s # <<>> /\ IsSpace(Head(s)) THEN LStrip(Tail(s)) ELSE s

RECURSIVE RStrip(_)
RStrip(s) ==
  IF s # <<>> /\ IsSpace(s[Len(s)]) THEN RStrip(SubSeq(s, 1, Len(s) - 1)) ELSE s

\* str.strip()
StrStrip(s) == RStrip(LStrip(s))

RECURSIVE SplitAcc(_, _, _)
SplitAcc(s, cur, acc) ==
  IF s = <<>>
  THEN IF cur = <<>> THEN acc ELSE Append(acc, cur)
  ELSE IF IsSpace(Head(s))
       THEN SplitAcc(Tail(s), <<>>, IF cur = <<>> THEN acc ELSE Append(acc, cur))
       ELSE SplitAcc(Tail(s), Append(cur, Head(s)), acc)

\* str.split() without a separator: the fields between runs of whitespace
StrSplit(s) == SplitAcc(s, <<>>, <<>>)

\* The index of the last occurrence of c in s, 0 when there is none (rfind + 1)
LastIndexOf(s, c) ==
  IF \E i \in 1..Len(s) : s[i] = c
  THEN CHOOSE i \in 1..Len(s) : s[i] = c /\ \A j \in (i+1)..Len(s) : s[j] # c
  ELSE 0

\* os.path.splitext: the extension starts at the last dot of the last path
\* component, leading dots of that component not counted.
SplitExt(p) ==
  LET sepIndex == LastIndexOf(p, "/")
      dotIndex == LastIndexOf(p, ".")
  IN IF dotIndex > sepIndex
        /\ \E k \in (sepIndex + 1)..(dotIndex - 1) : p[k] # "."
     THEN <<SubSeq(p, 1, dotIndex - 1), SubSeq(p, dotIndex, Len(p))>>
     ELSE <<p, <<>> >>

\* file.readline() at position pos (1-based): up to and including the next
\* newline; the empty string at the end of the file.  Never None.
RECURSIVE ReadLineFrom(_, _)
ReadLineFrom(data, pos) ==
  IF pos > Len(data) THEN <<>>
  ELSE IF data[pos] = "\n" THEN <<"\n">>
  ELSE <<data[pos]>> \o ReadLineFrom(data, pos + 1)

\* ------------------------------------------------------------------------
\* Format tokens and the codec table
\* ------------------------------------------------------------------------

\* The file extensions the code names (as os.path.splitext gives them) and
\* three it does not (.svg, .adj, .xyz)
Ext ==
  [ graphml |-> <<".","g","r","a","p","h","m","l">>,
    graphmlz |-> <<".","g","r","a","p","h","m","l","z">>,
    lgl |-> <<".","l","g","l">>,
    ncol |-> <<".","n","c","o","l">>,
    pajek |-> <<".","p","a","j","e","k">>,
    gml |-> <<".","g","m","l">>,
    dimacs |-> <<".","d","i","m","a","c","s">>,
    edgelist |-> <<".","e","d","g","e","l","i","s","t">>,
    edges |-> <<".","e","d","g","e","s">>,
    edge |-> <<".","e","d","g","e">>,
    net |-> <<".","n","e","t">>,
    pickle |-> <<".","p","i","c","k","l","e">>,
    txt |-> <<".","t","x","t">>,
    dat |-> <<".","d","a","t">>,
    svg |-> <<".","s","v","g">>,
    adj |-> <<".","a","d","j">>,
    xyz |-> <<".","x","y","z">> ]

\* The format tokens: an extension without its dot (ext[1:]), and the
\* token given to an adjacency matrix file
Tok ==
  [ graphml |-> Tail(Ext.graphml),
    graphmlz |-> Tail(Ext.graphmlz),
    lgl |-> Tail(Ext.lgl),
    ncol |-> Tail(Ext.ncol),
    pajek |-> Tail(Ext.pajek),
    gml |-> Tail(Ext.gml),
    dimacs |-> Tail(Ext.dimacs),
    edgelist |-> Tail(Ext.edgelist),
    edges |-> Tail(Ext.edges),
    edge |-> Tail(Ext.edge),
    net |-> Tail(Ext.net),
    pickle |-> Tail(Ext.pickle),
    svg |-> Tail(Ext.svg),
    adj |-> Tail(Ext.adj),
    xyz |-> Tail(Ext.xyz),
    adjacency |-> <<"a","d","j","a","c","e","n","c","y">> ]

\* The extensions _identify_format maps to a token without opening the file
StaticExts ==
  {Ext.graphml, Ext.graphmlz, Ext.lgl, Ext.ncol, Ext.pajek, Ext.gml, Ext.dimacs,
   Ext.edgelist, Ext.edges, Ext.edge, Ext.net, Ext.pickle}

\* The extensions whose files are sniffed
SniffedExts == {Ext.txt, Ext.dat}

\* An empty slot of the codec table
NoMethod == "None"

\* A mutant of FormatMapping: every slot of the table is filled.
FormatMappingAllSlotsFilled ==
  [t \in {Tok.ncol, Tok.lgl, Tok.graphmlz, Tok.graphml, Tok.gml, Tok.net, Tok.pajek,
          Tok.dimacs, Tok.adjacency, Tok.adj, Tok.edgelist, Tok.edge, Tok.edges,
          Tok.pickle, Tok.svg} |->
     IF t \in {Tok.net, Tok.pajek} THEN <<"Read_Pajek", "write_pajek">>
     ELSE IF t = Tok.svg THEN <<"Read_SVG", "write_svg">>
     ELSE <<"Read_Any", "write_any">>]

\* Graph._format_mapping: token -> (reader, writer)
FormatMapping ==
  (Tok.ncol      :> <<"Read_Ncol", "write_ncol">>) @@
  (Tok.lgl       :> <<"Read_Lgl", "write_lgl">>) @@
  (Tok.graphmlz  :> <<"Read_GraphMLz", "write_graphmlz">>) @@
  (Tok.graphml   :> <<"Read_GraphML", "write_graphml">>) @@
  (Tok.gml       :> <<"Read_GML", "write_gml">>) @@
  (Tok.net       :> <<"Read_Pajek", NoMethod>>) @@
  (Tok.pajek     :> <<"Read_Pajek", NoMethod>>) @@
  (Tok.dimacs    :> <<"Read_DIMACS", "write_dimacs">>) @@
  (Tok.adjacency :> <<"Read_Adjacency", "write_adjacency">>) @@
  (Tok.adj       :> <<"Read_Adjacency", "write_adjacency">>) @@
  (Tok.edgelist  :> <<"Read_Edgelist", "write_edgelist">>) @@
  (Tok.edge      :> <<"Read_Edgelist", "write_edgelist">>) @@
  (Tok.edges     :> <<"Read_Edgelist", "write_edgelist">>) @@
  (Tok.pickle    :> <<"Read_Pickle", "write_pickle">>) @@
  (Tok.svg       :> <<NoMethod, "write_svg">>)

\* ------------------------------------------------------------------------
\* Graph._identify_format
\* ------------------------------------------------------------------------

\* A mutant of HasTwoFields: a line of two or more fields counts as a pair.
HasAtLeastTwoFields(parts) == Len(parts) >= 2

\* len(parts) == 2
HasTwoFields(parts) == Len(parts) = 2

\* A mutant of ThirdLineVerdict: the end of the file is tested only by
\* "line is None", which readline never returns.
ThirdLineVerdictNoneTestOnly(line) == IF line = PyNone THEN PyNone ELSE Tok.edges

\* What the third line decides, the first two having two fields each
ThirdLineVerdict(line) ==
  IF line = PyNone THEN PyNone
  ELSE IF Len(StrSplit(StrStrip(line))) = 0 THEN PyNone
  ELSE Tok.edges

\* The content sniffing of a .txt or .dat file: the token it returns and the
\* number of readline calls it made.
Sniff(data) ==
  LET line1  == ReadLineFrom(data, 1)
      parts1 == StrSplit(StrStrip(line1))
      line2  == ReadLineFrom(data, 1 + Len(line1))
      parts2 == StrSplit(StrStrip(line2))
      line3  == ReadLineFrom(data, 1 + Len(line1) + Len(line2))
  IN IF line1 = PyNone THEN [token |-> Tok.edges, reads |-> 1]
     ELSE IF HasTwoFields(parts1)
          THEN IF line2 = PyNone THEN [token |-> Tok.edges, reads |-> 2]
               ELSE IF HasTwoFields(parts2)
                    THEN [token |-> ThirdLineVerdict(line3), reads |-> 3]
                    ELSE [token |-> PyNone, reads |-> 2]
          ELSE [token |-> Tok.adjacency, reads |-> 1]

\* What resolving a format leaves behind: the token (PyNone when there is
\* none), the names open() was called with, the lines read, and whether
\* open() raised.
Resolved(token, opened, reads, raised) ==
  [token |-> token, opened |-> opened, reads |-> reads, raised |-> raised]

\* A variant of _identify_format that takes any other extension as the
\* token, as it does for the static ones
IdentifyFormatAnyExtension(f, files) ==
  IF f.kind = "file" /\ f.name = PyNone
  THEN Resolved(PyNone, <<>>, 0, FALSE)
  ELSE
    LET filename == f.name
        ext      == StrLower(SplitExt(filename)[2])
    IN IF ext = Ext.txt \/ ext = Ext.dat
       THEN IF filename \notin DOMAIN files
            THEN Resolved(PyNone, <<filename>>, 0, TRUE)
            ELSE LET s == Sniff(files[filename])
                 IN Resolved(s.token, <<filename>>, s.reads, FALSE)
       ELSE IF ext = <<>> THEN Resolved(PyNone, <<>>, 0, FALSE)
       ELSE Resolved(Tail(ext), <<>>, 0, FALSE)

\* Graph._identify_format(filename); files is the file system
IdentifyFormat(f, files) ==
  IF f.kind = "file" /\ f.name = PyNone
  THEN Resolved(PyNone, <<>>, 0, FALSE)
  ELSE
    LET filename == f.name
        ext      == StrLower(SplitExt(filename)[2])
    IN IF ext \in StaticExts
       THEN Resolved(Tail(ext), <<>>, 0, FALSE)
       ELSE IF ext = Ext.txt \/ ext = Ext.dat
            THEN IF filename \notin DOMAIN files
                 THEN Resolved(PyNone, <<filename>>, 0, TRUE)
                 ELSE LET s == Sniff(files[filename])
                      IN Resolved(s.token, <<filename>>, s.reads, FALSE)
            ELSE Resolved(PyNone, <<>>, 0, FALSE)

\* ------------------------------------------------------------------------
\* Graph.Read, Graph.write and the module-level read and write
\* ------------------------------------------------------------------------

\* A mutant of ResolveFormat: the file is identified first, and the
\* caller's format only replaces what was identified.
ResolveFormatIdentifyFirst(f, format, files) ==
  LET id == IdentifyFormat(f, files)
  IN IF format = PyNone THEN id
     ELSE Resolved(format, id.opened, id.reads, id.raised)

\* if format is None: format = klass._identify_format(f)
ResolveFormat(f, format, files) ==
  IF format = PyNone THEN IdentifyFormat(f, files)
  ELSE Resolved(format, <<>>, 0, FALSE)

\* A mutant of Invoke: the keyword options are not passed on, and the
\* positional ones arrive reversed.
InvokeDroppingOptions(method, f, args, kwds) ==
  [method |-> method, f |-> f,
   args |-> [i \in 1..Len(args) |-> args[Len(args) + 1 - i]], kwds |-> {}]

\* reader(f, *args, **kwds) / writer(f, *args, **kwds): one call of a codec
Invoke(method, f, args, kwds) ==
  [method |-> method, f |-> f, args |-> args, kwds |-> kwds]

\* What a call of Read or write leaves behind
Outcome(id, invoked, raised, message) ==
  [token |-> id.token, opened |-> id.opened, reads |-> id.reads,
   invoked |-> invoked, raised |-> raised, message |-> message]

\* Graph.Read(f, format, *args, **kwds); codecFails: the reader raises
Read(f, format, args, kwds, files, codecFails) ==
  LET id == ResolveFormat(f, format, files)
  IN IF id.raised
     THEN Outcome(id, <<>>, "IOError", <<"open", id.opened[1]>>)
     ELSE IF id.token \notin DOMAIN FormatMapping
          THEN Outcome(id, <<>>, "IOError", <<"unknown file format: ", id.token>>)
          ELSE LET reader == FormatMapping[id.token][1]
               IN IF reader = NoMethod
                  THEN Outcome(id, <<>>, "IOError",
                               <<"no reader method for file format: ", id.token>>)
                  ELSE Outcome(id, <<Invoke(reader, f, args, kwds)>>,
                               IF codecFails THEN "CodecError" ELSE "none", <<>>)

\* Graph.write(f, format, *args, **kwds); codecFails: the writer raises
write(f, format, args, kwds, files, codecFails) ==
  LET id == ResolveFormat(f, format, files)
  IN IF id.raised
     THEN Outcome(id, <<>>, "IOError", <<"open", id.opened[1]>>)
     ELSE IF id.token \notin DOMAIN FormatMapping
          THEN Outcome(id, <<>>, "IOError", <<"unknown file format: ", id.token>>)
          ELSE LET writer == FormatMapping[id.token][2]
               IN IF writer = NoMethod
                  THEN Outcome(id, <<>>, "IOError",
                               <<"no writer method for file format: ", id.token>>)
                  ELSE Outcome(id, <<Invoke(writer, f, args, kwds)>>,
                               IF codecFails THEN "CodecError" ELSE "none", <<>>)

\* Python's binding of (f, format=None, *args, **kwds) for the positional
\* arguments after f and the keyword arguments of a call
BindFormat(pargs, kw) ==
  [format |-> IF pargs # <<>> THEN Head(pargs)
              ELSE IF \E p \in kw : p[1] = "format"
                   THEN (CHOOSE p \in kw : p[1] = "format")[2]
                   ELSE PyNone,
   args   |-> IF pargs # <<>> THEN Tail(pargs) ELSE <<>>,
   kwds   |-> {p \in kw : p[1] # "format"}]

\* read(filename, *args, **kwds): return Graph.Read(filename, *args, **kwds)
module_read(filename, pargs, kw, files, codecFails) ==
  LET b == BindFormat(pargs, kw)
  IN Read(filename, b.format, b.args, b.kwds, files, codecFails)

\* write(filename, graph, *args, **kwds): graph.write(filename, *args, **kwds)
module_write(filename, pargs, kw, files, codecFails) ==
  LET b == BindFormat(pargs, kw)
  IN write(filename, b.format, b.args, b.kwds, files, codecFails)

\* ------------------------------------------------------------------------
\* The dispatcher's state machine
\* ------------------------------------------------------------------------

\* The lines the sniffed files are made of (without their newline)
LineSet ==
  { <<>>, <<" ">>, <<"1">>, <<"0"," ","1">>, <<" ","1","\t"," ","2"," ">>,
    <<"1"," ","2"," ","3">> }

RECURSIVE JoinLines(_)
JoinLines(ls) ==
  IF ls = <<>> THEN <<>> ELSE Head(ls) \o <<"\n">> \o JoinLines(Tail(ls))

\* Every file of at most MaxLines lines of LineSet
Contents ==
  { JoinLines(ls) : ls \in UNION { [1..n -> LineSet] : n \in 0..MaxLines } }

\* What a file whose name decides its format may hold
FewContents ==
  { <<>>,
    JoinLines(<< <<"1"," ","2","0">> >>),
    JoinLines(<< <<"0"," ","1">>, <<"1"," ","2">>, <<"2"," ","0">> >>) }

Capitalised(ext) ==
  [i \in 1..Len(ext) |-> IF i = 2 THEN UpperChar(ext[i]) ELSE ext[i]]

CaseVariants(ext) == {ext, StrUpper(ext), Capitalised(ext)}

StaticNames == { <<"g">> \o v : v \in UNION { CaseVariants(e) : e \in StaticExts } }

SniffedNames == { <<"g">> \o Ext.txt, <<"d",".","x","/","g">> \o StrUpper(Ext.dat) }

OtherNames ==
  { <<"g">> \o Ext.svg, <<"g">> \o Ext.xyz, <<"g">> \o Ext.adj, <<"g">>,
    <<"d">> \o Ext.gml \o <<"/","g">>, <<"g">> \o Ext.gml \o Ext.xyz,
    <<"g",".">>, <<"g","m","l">> }

Names == StaticNames \cup SniffedNames \cup OtherNames

\* The file objects (open streams) passed instead of a name
StreamNames == { <<"g">> \o Ext.gml, <<"g">> \o Ext.xyz }

EmptyFs == <<>>

FileSystems ==
  {EmptyFs}
    \cup { n :> c : n \in SniffedNames, c \in Contents }
    \cup { n :> c : n \in Names \ SniffedNames, c \in FewContents }

\* The f arguments tried on a file system: its file, or any name when it
\* holds none; as a name, or as a file object with that name or (on the
\* empty file system) with a name attribute that cannot be read
Sources(files) ==
  LET names == IF files = EmptyFs THEN Names ELSE DOMAIN files
  IN { [kind |-> "str", name |-> n] : n \in names }
       \cup { [kind |-> "file", name |-> n] : n \in names \cap StreamNames }
       \cup (IF files = EmptyFs THEN {[kind |-> "file", name |-> PyNone]} ELSE {})

\* The format arguments: None, every key of the table, and two that are not
Formats == {PyNone} \cup DOMAIN FormatMapping \cup {Tok.xyz, StrUpper(Tok.gml)}

ExtraArgs == { <<>>, << <<"x">>, <<"y">> >> }

ExtraKwds == { {}, { <<"directed", <<"F">> >>, <<"index", <<"1">> >> } }

NoCall == [op |-> "none", f |-> [kind |-> "str", name |-> <<>>],
           format |-> PyNone, args |-> <<>>, kwds |-> {}]

NoOutcome == Outcome(Resolved(PyNone, <<>>, 0, FALSE), <<>>, "none", <<>>)

IoInit ==
  /\ fs \in FileSystems
  /\ pc = "idle"
  /\ call = NoCall
  /\ res = NoOutcome

Called(op, f, format, args, kwds) ==
  [op |-> op, f |-> f, format |-> format, args |-> args, kwds |-> kwds]

\* The positional arguments of a module-level call that passes format by
\* position (it must, to pass further positional arguments)
Positional(format, args) ==
  IF format = PyNone /\ args = <<>> THEN <<>> ELSE <<format>> \o args

\* Graph._identify_format(f), called on its own
DoIdentify ==
  /\ pc = "idle"
  /\ \E f \in Sources(fs) :
       LET id == IdentifyFormat(f, fs)
       IN /\ call' = Called("_identify_format", f, PyNone, <<>>, {})
          /\ res' = Outcome(id, <<>>, IF id.raised THEN "IOError" ELSE "none",
                            IF id.raised THEN <<"open", id.opened[1]>> ELSE <<>>)
  /\ pc' = "done"
  /\ UNCHANGED fs
  /\ UNCHANGED <<gzVars, rdVars, pkVars>>

\* Graph.Read(f, format, *args, **kwds)
DoRead ==
  /\ pc = "idle"
  /\ \E f \in Sources(fs), format \in Formats, args \in ExtraArgs,
        kwds \in ExtraKwds, codecFails \in BOOLEAN :
       /\ call' = Called("Read", f, format, args, kwds)
       /\ res' = Read(f, format, args, kwds, fs, codecFails)
  /\ pc' = "done"
  /\ UNCHANGED fs
  /\ UNCHANGED <<gzVars, rdVars, pkVars>>

\* graph.write(f, format, *args, **kwds)
DoWrite ==
  /\ pc = "idle"
  /\ \E f \in Sources(fs), format \in Formats, args \in ExtraArgs,
        kwds \in ExtraKwds, codecFails \in BOOLEAN :
       /\ call' = Called("write", f, format, args, kwds)
       /\ res' = write(f, format, args, kwds, fs, codecFails)
  /\ pc' = "done"
  /\ UNCHANGED fs
  /\ UNCHANGED <<gzVars, rdVars, pkVars>>

\* read(filename, *args, **kwds), the format given by position or, when no
\* further positional argument follows, by keyword
DoModuleRead ==
  /\ pc = "idle"
  /\ \E f \in Sources(fs), format \in Formats, args \in ExtraArgs,
        kwds \in ExtraKwds, codecFails \in BOOLEAN, byKeyword \in BOOLEAN :
       /\ byKeyword => (args = <<>> /\ format # PyNone)
       /\ call' = Called("read", f, format, args, kwds)
       /\ res' = IF byKeyword
                 THEN module_read(f, <<>>, kwds \cup {<<"format", format>>},
                                  fs, codecFails)
                 ELSE module_read(f, Positional(format, args), kwds,
                                  fs, codecFails)
  /\ pc' = "done"
  /\ UNCHANGED fs
  /\ UNCHANGED <<gzVars, rdVars, pkVars>>

\* write(filename, graph, *args, **kwds)
DoModuleWrite ==
  /\ pc = "idle"
  /\ \E f \in Sources(fs), format \in Formats, args \in ExtraArgs,
        kwds \in ExtraKwds, codecFails \in BOOLEAN, byKeyword \in BOOLEAN :
       /\ byKeyword => (args = <<>> /\ format # PyNone)
       /\ call' = Called("module_write", f, format, args, kwds)
       /\ res' = IF byKeyword
                 THEN module_write(f, <<>>, kwds \cup {<<"format", format>>},
                                   fs, codecFails)
                 ELSE module_write(f, Positional(format, args), kwds,
                                   fs, codecFails)
  /\ pc' = "done"
  /\ UNCHANGED fs
  /\ UNCHANGED <<gzVars, rdVars, pkVars>>

IoNext == DoIdentify \/ DoRead \/ DoWrite \/ DoModuleRead \/ DoModuleWrite


\* ------------------------------------------------------------------------
\* Format resolution and dispatch: the properties
\* ------------------------------------------------------------------------

ReadOps == {"Read", "read"}

WriteOps == {"write", "module_write"}

\* The call resolved the format itself, no format being given
Identified == pc = "done" /\ call.format = PyNone

\* The lines of a file, each without its newline
RECURSIVE LinesOf(_)
LinesOf(data) ==
  IF data = <<>> THEN <<>>
  ELSE LET n == CHOOSE i \in 1..Len(data) :
                  data[i] = "\n" /\ \A j \in 1..(i-1) : data[j] # "\n"
       IN <<SubSeq(data, 1, n - 1)>> \o LinesOf(SubSeq(data, n + 1, Len(data)))

\* The lines of LineSet with exactly two fields, and those with any field
TwoFieldLines == { <<"0"," ","1">>, <<" ","1","\t"," ","2"," ">> }

FieldLines == TwoFieldLines \cup { <<"1">>, <<"1"," ","2"," ","3">> }

\* The call was made on an existing .txt or .dat file
OnSniffedFile ==
  /\ Identified
  /\ call.f.name \in DOMAIN fs
  /\ call.f.name \in SniffedNames

SniffedLines == LinesOf(fs[call.f.name])

\* C1: a file name whose extension is, whatever its case, one of the twelve
\* static extensions is identified as that extension in lower case without
\* its dot, whatever the file holds (or whether it exists) and without
\* opening it; and the token is a key of _format_mapping.
C1_StaticExtensionDecides ==
  \A e \in StaticExts :
    (Identified /\ call.f.name \in { <<"g">> \o v : v \in CaseVariants(e) })
      => /\ res.token = Tail(e)
         /\ res.opened = <<>>
         /\ res.reads = 0
         /\ res.token \in DOMAIN FormatMapping

C1_Witness ==
  /\ Identified
  /\ call.op = "_identify_format"
  /\ call.f.name = <<"g">> \o StrUpper(Ext.graphmlz)
  /\ call.f.name \in DOMAIN fs
  /\ fs[call.f.name] # <<>>
  /\ res.token = Tok.graphmlz

\* C2: on a .txt or .dat file whose first two lines have exactly two fields
\* each, the edge-list token "edges" is returned when a third line with at
\* least one field follows, and no token is returned when the file ends after
\* the second line; Read and write then raise IOError and call no codec.
C2_TwoPairsThenThirdLine ==
  (OnSniffedFile /\ Len(SniffedLines) >= 2
     /\ SniffedLines[1] \in TwoFieldLines /\ SniffedLines[2] \in TwoFieldLines)
    => /\ (Len(SniffedLines) >= 3 /\ SniffedLines[3] \in FieldLines)
            => (res.token = Tok.edges /\ FormatMapping[res.token][1] = "Read_Edgelist")
       /\ Len(SniffedLines) = 2
            => /\ res.token = PyNone
               /\ res.invoked = <<>>
               /\ call.op \in ReadOps \cup WriteOps => res.raised = "IOError"

C2_Witness ==
  /\ OnSniffedFile
  /\ call.op = "Read"
  /\ SniffedLines = << <<"0"," ","1">>, <<" ","1","\t"," ","2"," ">> >>
  /\ res.token = PyNone
  /\ res.raised = "IOError"
  /\ res.reads = 3

C2_WitnessEdges ==
  /\ OnSniffedFile
  /\ call.op = "Read"
  /\ SniffedLines = << <<"0"," ","1">>, <<"0"," ","1">>, <<"1">> >>
  /\ res.token = Tok.edges
  /\ Len(res.invoked) = 1

\* C3: on a .txt or .dat file whose first line does not have exactly two
\* fields (an empty file and a blank first line included), the
\* adjacency-matrix token is returned after one readline.
C3_FirstLineNotAPair ==
  (OnSniffedFile
     /\ (SniffedLines = <<>> \/ SniffedLines[1] \notin TwoFieldLines))
    => /\ res.token = Tok.adjacency
       /\ res.reads = 1
       /\ res.opened = <<call.f.name>>

C3_Witness ==
  /\ OnSniffedFile
  /\ call.op = "_identify_format"
  /\ Len(SniffedLines) = 3
  /\ SniffedLines[1] = <<"1"," ","2"," ","3">>
  /\ SniffedLines[2] \in TwoFieldLines
  /\ res.token = Tok.adjacency
  /\ res.reads = 1

C3_WitnessEmptyFile ==
  /\ OnSniffedFile
  /\ fs[call.f.name] = <<>>
  /\ res.token = Tok.adjacency

\* C4: with an explicit format, Read and write dispatch on exactly that
\* token: the file name's extension is not consulted and the file is not
\* opened, whatever the name's extension.
C4_ExplicitFormatIsUsed ==
  (pc = "done" /\ call.op \in ReadOps \cup WriteOps /\ call.format # PyNone)
    => /\ res.token = call.format
       /\ res.opened = <<>>
       /\ res.reads = 0
       /\ \A i \in 1..Len(res.invoked) :
            res.invoked[i].method \in
              { FormatMapping[call.format][1], FormatMapping[call.format][2] }

C4_Witness ==
  /\ pc = "done"
  /\ call.op = "Read"
  /\ call.format = Tok.gml
  /\ call.f.name = <<"g">> \o Ext.txt
  /\ call.f.name \in DOMAIN fs
  /\ Len(LinesOf(fs[call.f.name])) = 3
  /\ Len(res.invoked) = 1
  /\ res.invoked[1].method = "Read_GML"

C5_WitnessReader ==
  /\ pc = "done"
  /\ call.op = "read"
  /\ call.format = Tok.svg
  /\ res.raised = "IOError"
  /\ res.invoked = <<>>

\* C6: a Read, write, read or write that returns normally has called exactly
\* one codec, the one in the reader (writer) slot of the resolved token,
\* once, with the caller's f and the caller's extra positional and keyword
\* options, unchanged and in order.
C6_OneCodecOptionsVerbatim ==
  (pc = "done" /\ call.op \in ReadOps \cup WriteOps /\ res.raised = "none")
    => /\ Len(res.invoked) = 1
       /\ res.token \in DOMAIN FormatMapping
       /\ res.invoked[1].method =
            FormatMapping[res.token][IF call.op \in ReadOps THEN 1 ELSE 2]
       /\ res.invoked[1].method # NoMethod
       /\ res.invoked[1].f = call.f
       /\ res.invoked[1].args = call.args
       /\ res.invoked[1].kwds = call.kwds

C6_Witness ==
  /\ pc = "done"
  /\ call.op = "module_write"
  /\ call.format = PyNone
  /\ call.args = << <<"x">>, <<"y">> >>
  /\ call.kwds # {}
  /\ res.raised = "none"
  /\ res.invoked[1].method = "write_dimacs"
  /\ res.invoked[1].args = << <<"x">>, <<"y">> >>

\* C18: on a .txt or .dat file whose first line has exactly two fields
\* and whose second line has not (the file may end after the first
\* line), no token is returned after two readlines, and Read and write
\* raise IOError and call no codec.
C18_SecondLineNotAPair ==
  (OnSniffedFile /\ Len(SniffedLines) >= 1 /\ SniffedLines[1] \in TwoFieldLines
     /\ (Len(SniffedLines) = 1 \/ SniffedLines[2] \notin TwoFieldLines))
    => /\ res.token = PyNone
       /\ res.reads = 2
       /\ res.invoked = <<>>
       /\ call.op \in ReadOps \cup WriteOps
            => /\ res.raised = "IOError"
               /\ res.message = <<"unknown file format: ", PyNone>>

C18_Witness ==
  /\ OnSniffedFile
  /\ call.op = "write"
  /\ SniffedLines = << <<"0"," ","1">>, <<"1"," ","2"," ","3">>, <<"0"," ","1">> >>
  /\ res.token = PyNone
  /\ res.raised = "IOError"
  /\ res.invoked = <<>>

\* The file ends after its first line
C18_WitnessOneLine ==
  /\ OnSniffedFile
  /\ call.op = "Read"
  /\ SniffedLines = << <<" ","1","\t"," ","2"," ">> >>
  /\ res.token = PyNone
  /\ res.raised = "IOError"

\* C19: Read and write without a format, on a name whose extension is
\* neither static nor .txt/.dat or on a file object without a readable
\* name, raise IOError with the message "unknown file format: None", call
\* no codec and open no file; with a format that is not a key of
\* _format_mapping they raise the same error, naming that format.
C19_UnknownFormatRaises ==
  (pc = "done" /\ call.op \in ReadOps \cup WriteOps
     /\ \/ call.format = PyNone /\ call.f.name \in OtherNames \cup {PyNone}
        \/ call.format \notin DOMAIN FormatMapping \cup {PyNone})
    => /\ res.raised = "IOError"
       /\ res.message = <<"unknown file format: ", call.format>>
       /\ res.token = call.format
       /\ res.invoked = <<>>
       /\ res.opened = <<>>
       /\ res.reads = 0

\* write on an existing g.svg without a format: svg has a writer, but the
\* extension is not looked up
C19_Witness ==
  /\ pc = "done"
  /\ call.op = "write"
  /\ call.format = PyNone
  /\ call.f.name = <<"g">> \o Ext.svg
  /\ call.f.name \in DOMAIN fs
  /\ res.raised = "IOError"
  /\ res.message = <<"unknown file format: ", PyNone>>

\* A file object whose name cannot be read
C19_WitnessStream ==
  /\ pc = "done"
  /\ call.op = "Read"
  /\ call.f = [kind |-> "file", name |-> PyNone]
  /\ call.format = PyNone
  /\ res.raised = "IOError"

\* An explicit format that is no key of the table
C19_WitnessExplicit ==
  /\ pc = "done"
  /\ call.op = "read"
  /\ call.format = StrUpper(Tok.gml)
  /\ res.raised = "IOError"
  /\ res.message = <<"unknown file format: ", StrUpper(Tok.gml)>>

\* ------------------------------------------------------------------------
\* The gzip-compressed GraphML codec: Graph.write_graphmlz, Graph.Read_GraphMLz
\* ------------------------------------------------------------------------

NoGraph == [n |-> 0, directed |-> FALSE, edges |-> <<>>, vattr |-> <<"none">>]

\* The graphs written: vertex count, directedness, edge list and the values
\* of one vertex attribute
Graphs ==
  { [n |-> 0, directed |-> FALSE, edges |-> <<>>, vattr |-> <<>>],
    [n |-> 2, directed |-> FALSE, edges |-> << <<0, 1>>, <<0, 1>> >>,
     vattr |-> <<"b", "b">>],
    [n |-> 3, directed |-> TRUE, edges |-> << <<0, 1>>, <<1, 2>>, <<1, 1>> >>,
     vattr |-> <<"b", "a", "a">>] }

Digits == <<"0","1","2","3","4","5","6","7","8","9">>

DigitOf(i) == Digits[i + 1]

ValueOf(c) == (CHOOSE i \in DOMAIN Digits : Digits[i] = c) - 1

RECURSIVE Concat(_)
Concat(ss) == IF ss = <<>> THEN <<>> ELSE Head(ss) \o Concat(Tail(ss))

\* A mutant of FileLines: the lines come without their line ends.
RECURSIVE FileLinesStripped(_)
FileLinesStripped(data) ==
  IF data = <<>> THEN <<>>
  ELSE LET line == ReadLineFrom(data, 1)
       IN <<RStrip(line)>> \o FileLinesStripped(SubSeq(data, Len(line) + 1, Len(data)))

\* "for line in inf": the lines of a file in order, each with its line end
RECURSIVE FileLines(_)
FileLines(data) ==
  IF data = <<>> THEN <<>>
  ELSE LET line == ReadLineFrom(data, 1)
       IN <<line>> \o FileLines(SubSeq(data, Len(line) + 1, Len(data)))

\* "outf.write(line)" for each of the lines: what the output then holds
WriteAll(lines) == Concat(lines)

\* The inner GraphML writer, taken to write a text the inner reader reads
\* back: a header line, the directedness, a line per vertex, a line per
\* edge, a closing line.
GraphMLEncode(g) ==
  Concat(<< <<"G", "\n">>, <<IF g.directed THEN "D" ELSE "U", "\n">> >>
         \o [i \in 1..g.n |-> <<"v", g.vattr[i], "\n">>]
         \o [j \in 1..Len(g.edges) |->
               <<"e", DigitOf(g.edges[j][1]), DigitOf(g.edges[j][2]), "\n">>]
         \o << <<"E", "\n">> >>)

\* The lines of a GraphML text as the inner reader takes them
RECURSIVE DocLines(_)
DocLines(data) ==
  IF data = <<>> THEN <<>>
  ELSE LET n == IF \E i \in 1..Len(data) : data[i] = "\n"
                THEN CHOOSE i \in 1..Len(data) :
                       data[i] = "\n" /\ \A j \in 1..(i - 1) : data[j] # "\n"
                ELSE Len(data)
       IN <<SubSeq(data, 1, n)>> \o DocLines(SubSeq(data, n + 1, Len(data)))

IsVertexLine(l) == Len(l) = 3 /\ l[1] = "v" /\ l[3] = "\n"

IsEdgeLine(l) ==
  /\ Len(l) = 4 /\ l[1] = "e" /\ l[4] = "\n"
  /\ \E i \in DOMAIN Digits : Digits[i] = l[2]
  /\ \E i \in DOMAIN Digits : Digits[i] = l[3]

\* The inner GraphML reader: the graph a text holds, or a failure when the
\* text is not a complete document
GraphMLDecode(data) ==
  LET ls   == DocLines(data)
      n    == Len(ls)
      body == SubSeq(ls, 3, n - 1)
      vs   == SelectSeq(body, IsVertexLine)
      es   == SelectSeq(body, IsEdgeLine)
      ok   == /\ n >= 3
              /\ ls[1] = <<"G", "\n">>
              /\ ls[2] \in { <<"D", "\n">>, <<"U", "\n">> }
              /\ ls[n] = <<"E", "\n">>
              /\ \A i \in 1..Len(body) : IsVertexLine(body[i]) \/ IsEdgeLine(body[i])
  IN IF ok
     THEN [ok |-> TRUE,
           graph |-> [n |-> Len(vs), directed |-> (ls[2][1] = "D"),
                      edges |-> [j \in 1..Len(es) |->
                                   <<ValueOf(es[j][2]), ValueOf(es[j][3])>>],
                      vattr |-> [i \in 1..Len(vs) |-> vs[i][2]]]]
     ELSE [ok |-> FALSE, graph |-> NoGraph]

\* The file at f
AbsentFile == [kind |-> "absent", level |-> 0, data |-> <<>>]

RawFile == [kind |-> "raw", level |-> 0, data |-> <<"G", "\n">>]

\* gzip.GzipFile(f, "wb", compresslevel) after the given lines were written
GzFile(level, lines) == [kind |-> "gz", level |-> level, data |-> WriteAll(lines)]

NoTmp == 0

\* mkstemp: a name no existing temporary file has
FreshTmp(existing) == CHOOSE t \in 1..(Cardinality(existing) + 1) : t \notin existing

ErrorOf(fault) ==
  CASE fault = "none"    -> "none"
    [] fault = "mkstemp" -> "OSError(mkstemp)"
    [] fault = "close"   -> "OSError(close)"
    [] fault = "codec"   -> "CodecError"
    [] fault = "gzopen"  -> "IOError(gzopen)"
    [] fault = "open"    -> "IOError(open)"
    [] fault = "copy"    -> "IOError(copy)"
    [] fault = "gzclose" -> "IOError(gzclose)"

\* A mutant of Cleanup: the temporary file is removed at the end of the try
\* body and not in a finally clause.
CleanupOnSuccessOnly(tmpfilename, primary, unlinkFails, existing) ==
  IF tmpfilename = NoTmp \/ primary # "none"
  THEN [raised |-> primary, tmps |-> existing, events |-> <<>>]
  ELSE IF unlinkFails
       THEN [raised |-> "OSError(unlink)", tmps |-> existing, events |-> <<"unlink">>]
       ELSE [raised |-> primary, tmps |-> existing \ {tmpfilename},
             events |-> <<"unlink">>]

\* finally: if tmpfilename is not None: os.unlink(tmpfilename)
\* primary is the exception the try body raised ("none": it ended normally);
\* an exception raised in the finally clause replaces it.
Cleanup(tmpfilename, primary, unlinkFails, existing) ==
  IF tmpfilename = NoTmp
  THEN [raised |-> primary, tmps |-> existing, events |-> <<>>]
  ELSE IF unlinkFails
       THEN [raised |-> "OSError(unlink)", tmps |-> existing, events |-> <<"unlink">>]
       ELSE [raised |-> primary, tmps |-> existing \ {tmpfilename},
             events |-> <<"unlink">>]

\* A mutant of WriteSteps: the target is opened before the GraphML writer
\* runs.
WriteStepsTargetFirst ==
  <<"mkstemp", "close", "gzopen", "codec", "open", "copy", "inf.close", "gzclose">>

\* The steps of the try body of write_graphmlz, in order
WriteSteps ==
  <<"mkstemp", "close", "codec", "gzopen", "open", "copy", "inf.close", "gzclose">>

\* The steps of the try body of Read_GraphMLz, in order
ReadSteps ==
  <<"mkstemp", "close", "gzopen", "open", "copy", "inf.close", "outf.close", "codec">>

StepIndex(steps, step) == CHOOSE i \in DOMAIN steps : steps[i] = step

\* The steps attempted when the body fails at step failed ("none": never)
Attempted(steps, failed) ==
  IF failed = "none" THEN steps ELSE SubSeq(steps, 1, StepIndex(steps, failed))

\* The step was attempted and did not raise
Completed(steps, failed, step) ==
  failed = "none" \/ StepIndex(steps, step) < StepIndex(steps, failed)

\* What a call of the compressed codec leaves behind
GzOutcome(target, clean, primary, result, trace, tmp, inner) ==
  [target |-> target, tmps |-> clean.tmps, raised |-> clean.raised,
   primary |-> primary,
   result |-> IF clean.raised = "none" THEN result ELSE NoGraph,
   trace |-> trace \o clean.events, tmp |-> tmp,
   inner |-> IF "codec" \in {trace[i] : i \in DOMAIN trace} THEN <<inner>> ELSE <<>>]

\* Graph.write_graphmlz(f, compresslevel): fault is the step of the try body
\* that raises, k the lines copied before a failing copy, unlinkFails
\* whether os.unlink raises.
write_graphmlz(g, level, fault, k, unlinkFails, target, existing) ==
  LET tmp     == IF fault = "mkstemp" THEN NoTmp ELSE FreshTmp(existing)
      made    == IF tmp = NoTmp THEN existing ELSE existing \cup {tmp}
      tmpData == GraphMLEncode(g)
      lines   == FileLines(tmpData)
      written == IF Completed(WriteSteps, fault, "copy") THEN lines
                 ELSE IF fault = "copy" THEN SubSeq(lines, 1, k) ELSE <<>>
      after   == IF Completed(WriteSteps, fault, "gzopen")
                 THEN GzFile(level, written) ELSE target
      clean   == Cleanup(tmp, ErrorOf(fault), unlinkFails, made)
  IN GzOutcome(after, clean, ErrorOf(fault), NoGraph,
               Attempted(WriteSteps, fault), tmp,
               Invoke("write_graphml", tmp, <<>>, {}))

\* Graph.Read_GraphMLz(f): the steps that fail because of what f holds (no
\* file: opening it; not gzip data: the first read) come before the
\* injected fault when they are earlier in the body.
ReadFailure(fault, target) ==
  IF fault \in {"mkstemp", "close"} THEN fault
  ELSE IF target.kind = "absent" \/ fault = "gzopen" THEN "gzopen"
  ELSE IF fault = "open" THEN "open"
  ELSE IF target.kind = "raw" \/ fault = "copy" THEN "copy"
  ELSE IF fault = "codec" \/ ~GraphMLDecode(WriteAll(FileLines(target.data))).ok
       THEN "codec"
  ELSE "none"

\* params and kwds are the caller's extra options; the inner reader is
\* called as cls.Read_GraphML(tmpfilename)
Read_GraphMLz(params, kwds, fault, unlinkFails, target, existing) ==
  LET failed  == ReadFailure(fault, target)
      tmp     == IF failed = "mkstemp" THEN NoTmp ELSE FreshTmp(existing)
      made    == IF tmp = NoTmp THEN existing ELSE existing \cup {tmp}
      tmpData == WriteAll(FileLines(target.data))
      result  == IF failed = "none" THEN GraphMLDecode(tmpData).graph ELSE NoGraph
      clean   == Cleanup(tmp, ErrorOf(failed), unlinkFails, made)
  IN GzOutcome(target, clean, ErrorOf(failed), result,
               Attempted(ReadSteps, failed), tmp,
               Invoke("Read_GraphML", tmp, <<>>, {}))

WriteFaults == {"none", "mkstemp", "close", "codec", "gzopen", "open", "copy", "gzclose"}

ReadFaults == {"none", "mkstemp", "close", "gzopen", "open", "copy", "codec"}

\* compresslevel: 1 to 9, 9 when not given
Levels == {1, 9}

NoGzCall == [op |-> "none", graph |-> NoGraph, level |-> 0, fault |-> "none",
             k |-> 0, unlinkFails |-> FALSE, params |-> <<>>, kwds |-> {}]

NoGzRes == [target |-> AbsentFile, tmps |-> {}, raised |-> "none",
            primary |-> "none", result |-> NoGraph, trace |-> <<>>, tmp |-> NoTmp,
            inner |-> <<>>]

GzInit ==
  /\ gzTarget \in {AbsentFile, RawFile}
  /\ gzTmp = {}
  /\ gzWritten = NoGraph
  /\ gzFailed = 0
  /\ gzCall = NoGzCall
  /\ gzRes = NoGzRes

\* graph.write_graphmlz(f, compresslevel)
DoWriteGraphmlz ==
  /\ Cardinality(gzTmp) < MaxLeftover
  /\ \E g \in Graphs, level \in Levels, fault \in WriteFaults,
        unlinkFails \in BOOLEAN :
     \E k \in IF fault = "copy"
              THEN {0, Len(FileLines(GraphMLEncode(g))) - 1} ELSE {0} :
       /\ gzCall' = [op |-> "write_graphmlz", graph |-> g, level |-> level,
                     fault |-> fault, k |-> k, unlinkFails |-> unlinkFails,
                     params |-> <<>>, kwds |-> {}]
       /\ gzRes' = write_graphmlz(g, level, fault, k, unlinkFails, gzTarget, gzTmp)
       /\ gzWritten' = IF gzRes'.raised = "none" THEN g
                       ELSE IF gzRes'.target # gzTarget THEN NoGraph
                       ELSE gzWritten
  /\ gzTarget' = gzRes'.target
  /\ gzTmp' = gzRes'.tmps
  /\ gzFailed' = IF gzRes'.raised = "OSError(unlink)" THEN gzFailed + 1
                 ELSE gzFailed
  /\ UNCHANGED <<ioVars, rdVars, pkVars>>

\* Graph.Read_GraphMLz(f, *params, **kwds): without options, with
\* directed given by position, or with index given by keyword
DoReadGraphmlz ==
  /\ Cardinality(gzTmp) < MaxLeftover
  /\ \E fault \in ReadFaults, unlinkFails \in BOOLEAN,
        params \in {<<>>, <<"False">>}, kwds \in {{}, {<<"index", "1">>}} :
       /\ gzCall' = [op |-> "Read_GraphMLz", graph |-> NoGraph, level |-> 0,
                     fault |-> fault, k |-> 0, unlinkFails |-> unlinkFails,
                     params |-> params, kwds |-> kwds]
       /\ gzRes' = Read_GraphMLz(params, kwds, fault, unlinkFails, gzTarget, gzTmp)
  /\ gzTmp' = gzRes'.tmps
  /\ gzFailed' = IF gzRes'.raised = "OSError(unlink)" THEN gzFailed + 1
                 ELSE gzFailed
  /\ UNCHANGED <<gzTarget, gzWritten>>
  /\ UNCHANGED <<ioVars, rdVars, pkVars>>

GzNext == DoWriteGraphmlz \/ DoReadGraphmlz

\* The compressed codec at rest
GzQuiet ==
  /\ gzTarget = AbsentFile
  /\ gzTmp = {}
  /\ gzWritten = NoGraph
  /\ gzFailed = 0
  /\ gzCall = NoGzCall
  /\ gzRes = NoGzRes

\* The dispatcher at rest
IoQuiet ==
  /\ fs = EmptyFs
  /\ pc = "idle"
  /\ call = NoCall
  /\ res = NoOutcome

\* ------------------------------------------------------------------------
\* The compressed codec: the properties
\* ------------------------------------------------------------------------

GzDone == gzCall.op # "none"

\* The call created a temporary file
MadeTmp == GzDone /\ gzRes.tmp # NoTmp

UnlinkCalls == Len(SelectSeq(gzRes.trace, LAMBDA e : e = "unlink"))

C8_CodecErrorReachesCaller ==
  (GzDone /\ gzRes.primary = "CodecError") => gzRes.raised = "CodecError"

\* C9: a graph written by write_graphmlz and read back by Read_GraphMLz from
\* the same path comes back with the same vertex count, edges, directedness
\* and attribute values, the inner GraphML writer and reader round-tripping:
\* whenever the read returns, and it returns unless a step of it fails.
C9_RoundTrip ==
  (gzCall.op = "Read_GraphMLz" /\ gzWritten # NoGraph)
    => /\ gzRes.raised = "none" =>
            /\ gzRes.result.n = gzWritten.n
            /\ gzRes.result.edges = gzWritten.edges
            /\ gzRes.result.directed = gzWritten.directed
            /\ gzRes.result.vattr = gzWritten.vattr
       /\ (gzCall.fault = "none" /\ ~gzCall.unlinkFails) => gzRes.raised = "none"

C9_Witness ==
  /\ gzCall.op = "Read_GraphMLz"
  /\ gzWritten.n = 3
  /\ gzWritten.directed
  /\ gzRes.raised = "none"
  /\ gzRes.result = gzWritten
  /\ Len(gzRes.result.edges) = 3

\* C23: in write_graphmlz the target is opened only after the inner GraphML
\* writer has returned against the temporary path, and a call in which
\* mkstemp, os.close or the inner writer fails leaves the target as it was;
\* in Read_GraphMLz the inner reader runs only after the copy into the
\* temporary file and the closing of that file, and not at all when opening
\* or decompressing the source fails.
C23_CodecOrdering ==
  [][LET trace == gzRes'.trace
         at(step) == {i \in DOMAIN trace : trace[i] = step}
         before(a, b) == \A j \in at(b) : \E i \in at(a) : i < j
     IN /\ gzCall'.op = "write_graphmlz" =>
             /\ before("codec", "gzopen")
             /\ at("gzopen") # {} => gzRes'.primary # ErrorOf("codec")
             /\ gzCall'.fault \in {"mkstemp", "close", "codec"} =>
                  /\ at("gzopen") = {}
                  /\ gzTarget' = gzTarget
        /\ gzCall'.op = "Read_GraphMLz" =>
             /\ before("copy", "codec")
             /\ before("outf.close", "codec")
             /\ gzRes'.primary \in {ErrorOf("gzopen"), ErrorOf("open"), ErrorOf("copy")} =>
                  /\ at("codec") = {}
                  /\ gzRes'.inner = <<>>]_gzVars

\* The inner writer failed on a target that an earlier call had written: the
\* target still holds that graph
C23_Witness ==
  /\ gzCall.op = "write_graphmlz"
  /\ gzCall.fault = "codec"
  /\ gzRes.primary = ErrorOf("codec")
  /\ gzTarget.kind = "gz"
  /\ gzWritten \in Graphs
  /\ gzWritten # gzCall.graph

\* C21: the extra positional and keyword arguments of Read_GraphMLz
\* (directed, index) reach the inner GraphML reader unchanged.
C21_OptionsReachInnerReader ==
  (gzCall.op = "Read_GraphMLz" /\ gzRes.inner # <<>>)
    => /\ gzRes.inner[1].args = gzCall.params
       /\ gzRes.inner[1].kwds = gzCall.kwds

\* ------------------------------------------------------------------------
\* Rendering: Graph.write_svg (SVG file) and Graph.__plot__ (Cairo context)
\* ------------------------------------------------------------------------
\* A graph to render: vertex ids are 0..n-1, edges are <<source, target>>
\* pairs in edge-id order, vs and es map the names of the vertex and edge
\* attributes that exist to their per-element values.  A vertex colour is
\* held as the list of its space-separated words ("red blue" is
\* <<"red", "blue">>); a label is held as the text str() gives for it.
RenderGraphs ==
  { [n |-> 0, directed |-> FALSE, edges |-> <<>>,
     vs |-> [name |-> <<>>], es |-> [weight |-> <<>>]],
    [n |-> 1, directed |-> TRUE, edges |-> << <<0, 0>> >>,
     vs |-> [name |-> <<"v">>], es |-> [weight |-> <<"1">>]],
    [n |-> 2, directed |-> FALSE, edges |-> << <<0, 1>>, <<1, 0>> >>,
     vs |-> [name |-> <<"v", "w">>, label |-> <<"a", "b">>, shape |-> <<1, 2>>,
             color |-> << <<"red", "blue">>, <<"green">> >>],
     es |-> [weight |-> <<"1", "1">>, color |-> <<"gray", "black">>]],
    [n |-> 3, directed |-> TRUE,
     edges |-> << <<0, 1>>, <<1, 2>>, <<2, 0>>, <<1, 1>> >>,
     vs |-> [name |-> <<"u", "v", "w">>], es |-> [weight |-> <<"1", "1", "1", "1">>]],
    [n |-> 3, directed |-> TRUE, edges |-> << <<0, 1>>, <<1, 2>>, <<2, 0>> >>,
     vs |-> [name |-> <<"u", "v", "w">>, shape |-> <<1, 0, 3>>,
             color |-> << <<"red", "blue">>, <<"green">>, <<"red">> >>],
     es |-> [weight |-> <<"1", "1", "1">>]] }

\* Layouts of n points: one spread over both axes, one with a zero extent
LayoutsOf(n) ==
  CASE n = 0 -> { <<>> }
    [] n = 1 -> { << <<0, 0>> >> }
    [] n = 2 -> { << <<0, 0>>, <<1, 2>> >>, << <<0, 1>>, <<2, 1>> >>,
                  << <<0, 0>>, <<3, 1>> >> }
    [] OTHER -> { << <<0, 0>>, <<2, 0>>, <<1, 2>> >>, << <<2, 2>>, <<0, 0>>, <<1, 0>> >>,
                  << <<1, 1>>, <<1, 1>>, <<1, 1>> >> }

\* An optional integer argument (None or a number)
NoneInt == [some |-> FALSE, v |-> 0]

SomeInt(v) == [some |-> TRUE, v |-> v]

\* A per-element argument: an attribute name, None, or a list of values
NameParam(s) == [kind |-> "name", name |-> s, vals |-> <<>>]

NoneParam == [kind |-> "none", name |-> "", vals |-> <<>>]

ListParam(v) == [kind |-> "list", name |-> "", vals |-> v]

\* One emitted item: a drawing primitive or a piece of document structure,
\* with the id of the edge or vertex it belongs to (-1: the document);
\* a label carries its text; the stroke and the arrowhead of an edge (u, v)
\* carry the distance between the point they end at and the centre of v,
\* measured back along the direction of the edge
Item(kind, of) == [kind |-> kind, of |-> of, text |-> "", back |-> 0]

\* One step of an emission loop: the items it emits before it ends, and
\* the exception that ends it ("none": it completes)
Step(items, err) == [items |-> items, err |-> err]

\* Statements run in order; the first exception ends the run
RECURSIVE RunSteps(_)
RunSteps(steps) ==
  IF steps = <<>> THEN [doc |-> <<>>, raised |-> "none"]
  ELSE IF Head(steps).err # "none"
       THEN [doc |-> Head(steps).items, raised |-> Head(steps).err]
       ELSE LET rest == RunSteps(Tail(steps))
            IN [doc |-> Head(steps).items \o rest.doc, raised |-> rest.raised]

\* What a render call leaves: the exception, the file, the items emitted,
\* the caller's layout, label list and colour list as they are afterwards,
\* and the surface size, scale and shift of the normalization (<<>> when
\* not reached)
RenderOutcome(raised, opened, doc, objs, norm) ==
  [raised |-> raised, opened |-> opened,
   closed |-> opened /\ raised = "none", doc |-> doc,
   layout |-> objs.layout, labels |-> objs.labels, colors |-> objs.colors,
   surface |-> norm.surface, scale |-> norm.scale, shift |-> norm.shift]

\* Float arithmetic, carried out exactly: a number is a fraction n/d in
\* lowest terms with d > 0
RECURSIVE GCD(_, _)
GCD(a, b) == IF b = 0 THEN a ELSE GCD(b, a % b)

Q(n, d) ==
  LET a == IF n < 0 THEN -n ELSE n
      b == IF d < 0 THEN -d ELSE d
      g == GCD(a, b)
  IN [n |-> (IF (n < 0) = (d < 0) THEN a ELSE -a) \div g, d |-> b \div g]

QAdd(x, y) == Q(x.n * y.d + y.n * x.d, x.d * y.d)

QMul(x, y) == Q(x.n * y.n, x.d * y.d)

QDiv(x, y) == Q(x.n * y.d, x.d * y.n)

QLe(x, y) == x.n * y.d <= y.n * x.d

\* The rows of a layout as floats
QRows(layout) == [i \in DOMAIN layout |-> <<Q(layout[i][1], 1), Q(layout[i][2], 1)>>]

\* The smallest and largest coordinate along each axis
BoundingBox(layout) ==
  [min |-> [dim \in 1..2 |-> CHOOSE v \in {layout[i][dim] : i \in DOMAIN layout} :
                               \A i \in DOMAIN layout : QLe(v, layout[i][dim])],
   max |-> [dim \in 1..2 |-> CHOOSE v \in {layout[i][dim] : i \in DOMAIN layout} :
                               \A i \in DOMAIN layout : QLe(layout[i][dim], v)]]

NoNorm == [surface |-> <<>>, scale |-> <<>>, shift |-> <<>>]

\* --- Graph.write_svg ---------------------------------------------------

\* A variant in which each of width and height defaults to 400 by itself
SvgSizeEachDefaults(width, height) ==
  <<IF width.some THEN width.v ELSE 400, IF height.some THEN height.v ELSE 400>>

\* width and height: both default to 400, one defaults to the other
SvgSize(width, height) ==
  IF ~width.some /\ ~height.some THEN <<400, 400>>
  ELSE IF ~width.some THEN <<height.v, height.v>>
  ELSE IF ~height.some THEN <<width.v, width.v>>
  ELSE <<width.v, height.v>>

\* A string argument names an attribute; a missing attribute gives the
\* fallback list; anything else is used as it is
SvgAttribute(store, p, fallback) ==
  IF p.kind = "name"
  THEN IF p.name \in DOMAIN store THEN store[p.name] ELSE fallback
  ELSE p.vals

\* labels: ordinals 1..vcount when the attribute is missing, "" for None
SvgLabels(g, labels) ==
  IF labels.kind = "none" THEN [i \in 1..g.n |-> ""]
  ELSE SvgAttribute(g.vs, labels, [i \in 1..g.n |-> DigitOf(i)])

\* while len(labels)<vc: labels.append(len(labels)+1)
PadLabels(labels, vc) ==
  labels \o [i \in 1..(vc - Len(labels)) |-> DigitOf(Len(labels) + i)]

\* while len(colors)<vc: colors.append("red")
PadColors(colors, vc) ==
  colors \o [i \in 1..(vc - Len(colors)) |-> <<"red">>]

\* The layout has no extent along one of the axes
ZeroExtent(layout) ==
  \E dim \in 1..2 : \A i, j \in DOMAIN layout : layout[i][dim] = layout[j][dim]

\* for eidx, edge in enumerate(self.es): the group, line and arrowhead of
\* a directed edge, the line of an undirected one; edge_colors[eidx] is
\* read by the first print.  x2 and y2 are moved back by vertex_size along
\* the angle before the test of directed: the line ends there, and so does
\* the group that holds the arrowhead at its origin
SvgEdgeSteps(g, edge_colors, vertex_size) ==
  [k \in DOMAIN g.edges |->
     LET ends(kind) == [Item(kind, k - 1) EXCEPT !.back = vertex_size]
     IN IF k > Len(edge_colors) THEN Step(<<>>, "IndexError")
        ELSE IF g.directed
             THEN Step(<<Item("edge-g", k - 1), ends("line"),
                         ends("arrow"), Item("edge-g-end", k - 1)>>, "none")
             ELSE Step(<<ends("line")>>, "none")]

\* The shape of one vertex: 1 is a circle, or two half-disc paths and an
\* outline when the colour has two words; 2 is a square; others nothing
SvgShape(shape, colour, vidx) ==
  IF shape = 1
  THEN IF Len(colour) > 1
       THEN <<Item("path", vidx), Item("path", vidx), Item("circle", vidx)>>
       ELSE <<Item("circle", vidx)>>
  ELSE IF shape = 2 THEN <<Item("rect", vidx)>> ELSE <<>>

\* for vidx in range(self.vcount()): the group, the shape, the label
SvgVertexSteps(g, shapes, colors, labels) ==
  [k \in 1..g.n |->
     IF k > Len(shapes) THEN Step(<<Item("vertex-g", k - 1)>>, "IndexError")
     ELSE Step(<<Item("vertex-g", k - 1)>> \o SvgShape(shapes[k], colors[k], k - 1)
               \o <<[Item("text", k - 1) EXCEPT !.text = labels[k]],
                    Item("vertex-g-end", k - 1)>>, "none")]

\* A variant that prints the vertices group before the edges group
SvgDocumentVerticesFirst(edgeSteps, vertexSteps) ==
  <<Step(<<Item("prologue", -1)>>, "none")>>
  \o <<Step(<<Item("vertices", -1)>>, "none")>> \o vertexSteps
  \o <<Step(<<Item("edges", -1)>>, "none")>> \o edgeSteps
  \o <<Step(<<Item("epilogue", -1)>>, "none")>>

\* The prints of the document in program order: prologue and edges group,
\* the edges, the vertices group, the vertices, the closing tags
SvgDocument(edgeSteps, vertexSteps) ==
  <<Step(<<Item("prologue", -1)>>, "none")>>
  \o <<Step(<<Item("edges", -1)>>, "none")>> \o edgeSteps
  \o <<Step(<<Item("vertices", -1)>>, "none")>> \o vertexSteps
  \o <<Step(<<Item("epilogue", -1)>>, "none")>>

\* A variant that centres on the first row of the layout
SvgNormalizeAroundFirstRow(layout, size, vertex_size, floats) ==
  LET box == BoundingBox(layout)
      extent(dim) == QAdd(box.max[dim], QMul(Q(-1, 1), box.min[dim]))
      ratio(dim) == IF floats
                    THEN QDiv(Q(size[dim] - 2 * vertex_size, 1), extent(dim))
                    ELSE Q((size[dim] - 2 * vertex_size) \div extent(dim).n, 1)
  IN [surface |-> size, scale |-> <<ratio(1), ratio(2)>>, shift |-> layout[1]]

\* sizes, halfsizes and ratios: the centre of the bounding box, and the
\* drawing area divided by the extent.  sizes[dim] is an int, so the
\* division floors when the coordinates are ints too
SvgNormalize(layout, size, vertex_size, floats) ==
  LET box == BoundingBox(layout)
      extent(dim) == QAdd(box.max[dim], QMul(Q(-1, 1), box.min[dim]))
      ratio(dim) == IF floats
                    THEN QDiv(Q(size[dim] - 2 * vertex_size, 1), extent(dim))
                    ELSE Q((size[dim] - 2 * vertex_size) \div extent(dim).n, 1)
      half(dim) == QMul(QAdd(box.max[dim], box.min[dim]), Q(1, 2))
  IN [surface |-> size, scale |-> <<ratio(1), ratio(2)>>, shift |-> <<half(1), half(2)>>]

write_svg(g, layout, width, height, labels, colors, shapes, edge_colors, font_size, vertex_size, floats) ==
  LET size == SvgSize(width, height)
      before == [layout |-> layout, labels |-> labels.vals, colors |-> colors.vals]
      after == [layout |-> layout,
                labels |-> IF labels.kind = "list" THEN PadLabels(labels.vals, g.n) ELSE <<>>,
                colors |-> IF colors.kind = "list" THEN PadColors(colors.vals, g.n) ELSE <<>>]
      ls == PadLabels(SvgLabels(g, labels), g.n)
      cs == PadColors(SvgAttribute(g.vs, colors, [i \in 1..g.n |-> <<"red">>]), g.n)
      ss == SvgAttribute(g.vs, shapes, [i \in 1..g.n |-> 1])
      ecs == SvgAttribute(g.es, edge_colors, [i \in DOMAIN g.edges |-> "black"])
      run == RunSteps(SvgDocument(SvgEdgeSteps(g, ecs, vertex_size), SvgVertexSteps(g, ss, cs, ls)))
  IN IF size[1] <= 0 \/ size[2] <= 0
     THEN RenderOutcome("ValueError(size)", FALSE, <<>>, before, NoNorm)
     ELSE IF font_size.isStr /\ \E i \in DOMAIN font_size.text : font_size.text[i] = ";"
     THEN RenderOutcome("ValueError(font size)", FALSE, <<>>, before, NoNorm)
     ELSE IF layout = <<>>
     THEN RenderOutcome("IndexError", TRUE, <<>>, after, NoNorm)
     ELSE IF ZeroExtent(layout)
     THEN RenderOutcome("ZeroDivisionError", TRUE, <<>>, after, NoNorm)
     ELSE RenderOutcome(run.raised, TRUE, run.doc, after,
                        SvgNormalize(layout, size, vertex_size, floats))

\* --- Graph.__plot__ ----------------------------------------------------

\* drawing.collect_attributes: the keyword's list when one is given, else
\* the attribute of that name, else the default for every element
CollectAttributes(count, kwds, key, store, attr, default) ==
  IF key \in kwds.keys /\ kwds[key].kind = "list" THEN kwds[key].vals
  ELSE IF attr \in DOMAIN store THEN store[attr]
  ELSE [i \in 1..count |-> default]

\* The labels: 0-based ids as text when neither the keyword nor the
\* attribute exists, "" when the keyword is None, else the collected ones
PlotLabels(g, kwds) ==
  IF "vertex_label" \notin kwds.keys /\ "label" \notin DOMAIN g.vs
  THEN [i \in 1..g.n |-> DigitOf(i - 1)]
  ELSE IF "vertex_label" \in kwds.keys /\ kwds.vertex_label.kind = "none"
  THEN [i \in 1..g.n |-> ""]
  ELSE CollectAttributes(g.n, kwds, "vertex_label", g.vs, "label", "None")

\* for idx, e in enumerate(self.es): an arc for a loop, else a segment,
\* and an arrowhead when the graph is directed and the edge is no loop;
\* both end at layout[tgt]
PlotEdgeSteps(g) ==
  [k \in DOMAIN g.edges |->
     Step((IF g.edges[k][1] = g.edges[k][2]
           THEN <<Item("arc", k - 1)>> ELSE <<Item("segment", k - 1)>>)
          \o (IF g.directed /\ g.edges[k][1] # g.edges[k][2]
              THEN <<Item("arrowhead", k - 1)>> ELSE <<>>), "none")]

\* for idx, v in enumerate(self.vs): the filled and stroked disc
PlotVertexSteps(g) ==
  [k \in 1..g.n |-> Step(<<Item("disc", k - 1)>>, "none")]

\* for idx, v in enumerate(self.vs): text_extents and show_text
PlotLabelSteps(g, vertex_labels) ==
  [k \in 1..g.n |->
     IF k > Len(vertex_labels) THEN Step(<<>>, "IndexError")
     ELSE Step(<<[Item("label", k - 1) EXCEPT !.text = vertex_labels[k]]>>, "none")]

\* sw, sh, rx, ry and the translation: an axis without extent is scaled
\* as if its extent were 1
PlotNormalize(box, bbox, max_vertex_size, margin) ==
  LET extent(dim) == QAdd(box.max[dim], QMul(Q(-1, 1), box.min[dim]))
      sw == IF extent(1).n = 0 THEN Q(1, 1) ELSE extent(1)
      sh == IF extent(2).n = 0 THEN Q(1, 1) ELSE extent(2)
      rx == QDiv(Q(bbox.width - max_vertex_size - margin[2] - margin[4], 1), sw)
      ry == QDiv(Q(bbox.height - max_vertex_size - margin[1] - margin[3], 1), sh)
  IN [surface |-> <<bbox.width, bbox.height>>, scale |-> <<rx, ry>>,
      shift |-> <<QAdd(QMul(QMul(Q(-1, 1), box.min[1]), rx),
                       Q(max_vertex_size + 2 * margin[2], 2)),
                  QAdd(QMul(QMul(Q(-1, 1), box.min[2]), ry),
                       Q(max_vertex_size + 2 * margin[1], 2))>>]

\* Layout.scale followed by Layout.translate, on every row
ScaleTranslate(rows, scale, shift) ==
  [i \in DOMAIN rows |-> <<QAdd(QMul(rows[i][1], scale[1]), shift[1]),
                           QAdd(QMul(rows[i][2], scale[2]), shift[2])>>]

\* while len(margin)<4: margin.extend(margin), then margin[:4].  The list
\* doubles on every pass; a pass that leaves it as it was (the empty list)
\* repeats for ever and the loop is never left
RECURSIVE PlotMargin(_)
PlotMargin(margin) ==
  IF Len(margin) >= 4 THEN [done |-> TRUE, margin |-> SubSeq(margin, 1, 4)]
  ELSE IF margin \o margin = margin THEN [done |-> FALSE, margin |-> margin]
  ELSE PlotMargin(margin \o margin)

\* The margin is worked out first (a value that is no sequence becomes a
\* list of one); max(vertex_sizes) raises on a graph without vertices; the
\* layout is scaled and translated in place; then the three loops run one
\* after the other
__plot__(g, layout, kwds, bbox) ==
  LET margin == PlotMargin(IF "margin" \in kwds.keys THEN kwds.margin.vals
                           ELSE <<0, 0, 0, 0>>)
      vertex_sizes == CollectAttributes(g.n, kwds, "vertex_size", g.vs, "size", 10)
      max_vertex_size == CHOOSE v \in {vertex_sizes[i] : i \in DOMAIN vertex_sizes} :
                           \A i \in DOMAIN vertex_sizes : v >= vertex_sizes[i]
      norm == PlotNormalize(BoundingBox(layout), bbox, max_vertex_size, margin.margin)
      lists == IF "vertex_label" \in kwds.keys THEN kwds.vertex_label.vals ELSE <<>>
      before == [layout |-> IF "layout" \in kwds.keys THEN layout ELSE <<>>,
                 labels |-> lists, colors |-> <<>>]
      after == [layout |-> IF "layout" \in kwds.keys
                           THEN ScaleTranslate(layout, norm.scale, norm.shift)
                           ELSE <<>>,
                labels |-> lists, colors |-> <<>>]
      run == RunSteps(PlotEdgeSteps(g) \o PlotVertexSteps(g)
                      \o PlotLabelSteps(g, PlotLabels(g, kwds)))
  IN IF ~margin.done THEN RenderOutcome("never returns", FALSE, <<>>, before, NoNorm)
     ELSE IF g.n = 0 THEN RenderOutcome("ValueError", FALSE, <<>>, before, NoNorm)
     ELSE RenderOutcome(run.raised, FALSE, run.doc, after, norm)

\* --- The rendering machine ---------------------------------------------

Sizes == {NoneInt, SomeInt(0), SomeInt(300)}

FontSizes ==
  { [isStr |-> FALSE, text |-> <<"1", "6">>],
    [isStr |-> TRUE, text |-> <<"1", "2", "p", "x">>],
    [isStr |-> TRUE, text |-> <<"1", ";", "x">>] }

LabelParams == {NameParam("label"), NameParam("name"), NoneParam, ListParam(<<"x">>)}

ColorParams == {NameParam("color"), ListParam(<< <<"blue">> >>)}

ShapeParams == {NameParam("shape"), ListParam(<<2>>), ListParam(<<1, 1, 1>>)}

EdgeColorParams == {NameParam("color"), ListParam(<<"navy", "navy">>)}

\* The keywords of a __plot__ call: the caller's Layout object or none
\* (then self.layout computes one), vertex_label, and margin: a number
\* (list(margin) raises TypeError and the value becomes a list of one) or
\* a sequence of numbers
PlotKwds ==
  LET labelled ==
        { [keys |-> k, vertex_label |-> p] :
            k \in {{}, {"layout"}},
            p \in {NoneParam} } \cup
        { [keys |-> k \cup {"vertex_label"}, vertex_label |-> p] :
            k \in {{}, {"layout"}},
            p \in {NoneParam, ListParam(<<"x", "y", "z">>), ListParam(<<"x">>)} }
      margins == {[kind |-> "scalar", name |-> "", vals |-> <<5>>],
                  ListParam(<<>>), ListParam(<<7>>), ListParam(<<1, 2>>),
                  ListParam(<<1, 2, 3>>), ListParam(<<1, 2, 3, 4, 5>>)}
  IN { [keys |-> kw.keys, vertex_label |-> kw.vertex_label, margin |-> NoneParam] :
         kw \in labelled } \cup
     { [keys |-> kw.keys \cup {"margin"}, vertex_label |-> kw.vertex_label,
        margin |-> mg] : kw \in labelled, mg \in margins }

\* The bounding boxes of a __plot__ call
PlotBoxes == {[width |-> 300, height |-> 200], [width |-> 10, height |-> 10]}

NoRdCall == [op |-> "none"]

NoRdRes ==
  RenderOutcome("none", FALSE, <<>>, [layout |-> <<>>, labels |-> <<>>, colors |-> <<>>], NoNorm)

\* A call record applied
Render(c) ==
  IF c.op = "write_svg"
  THEN write_svg(c.graph, c.layout, c.width, c.height, c.labels, c.colors, c.shapes,
                 c.edge_colors, c.font_size, c.vertex_size, c.floats)
  ELSE __plot__(c.graph, c.layout, c.kwds, c.bbox)

NoRdPrev == [call |-> NoRdCall, res |-> NoRdRes, reuse |-> FALSE]

RdInit ==
  /\ rdCall = NoRdCall
  /\ rdRes = NoRdRes
  /\ rdPrev = NoRdPrev

RdQuiet == RdInit

DoWriteSvg ==
  /\ rdCall.op = "none"
  /\ \E g \in RenderGraphs, width \in Sizes, height \in Sizes,
        labels \in LabelParams, colors \in ColorParams, shapes \in ShapeParams,
        edge_colors \in EdgeColorParams, font_size \in FontSizes,
        vertex_size \in {10}, floats \in BOOLEAN :
       \E layout \in LayoutsOf(g.n) :
         rdCall' = [op |-> "write_svg", graph |-> g, layout |-> QRows(layout),
                    width |-> width, height |-> height, labels |-> labels,
                    colors |-> colors, shapes |-> shapes,
                    edge_colors |-> edge_colors, font_size |-> font_size,
                    vertex_size |-> vertex_size, floats |-> floats]
  /\ rdRes' = Render(rdCall')
  /\ UNCHANGED <<rdPrev, ioVars, gzVars, pkVars>>

DoPlot ==
  /\ rdCall.op = "none"
  /\ \E g \in RenderGraphs, kwds \in PlotKwds, bbox \in PlotBoxes :
       \E layout \in LayoutsOf(g.n) :
         rdCall' = [op |-> "__plot__", graph |-> g, layout |-> QRows(layout),
                    kwds |-> kwds, bbox |-> bbox]
  /\ rdRes' = Render(rdCall')
  /\ UNCHANGED <<rdPrev, ioVars, gzVars, pkVars>>

\* The caller makes the same call once more: with the same layout object
\* as it is now (reuse) or with another layout, and with the same label
\* and colour lists as they are now
DoRenderAgain ==
  /\ rdCall.op # "none"
  /\ rdPrev.call.op = "none"
  /\ \E reuse \in {r \in BOOLEAN : r => (rdCall.op = "write_svg" \/ "layout" \in rdCall.kwds.keys)} :
       /\ rdPrev' = [call |-> rdCall, res |-> rdRes, reuse |-> reuse]
       /\ \E layout \in IF reuse THEN {rdRes.layout}
                        ELSE {QRows(l) : l \in LayoutsOf(rdCall.graph.n)} :
            rdCall' = IF rdCall.op = "write_svg"
                      THEN [rdCall EXCEPT
                              !.layout = layout,
                              !.labels = IF @.kind = "list" THEN ListParam(rdRes.labels) ELSE @,
                              !.colors = IF @.kind = "list" THEN ListParam(rdRes.colors) ELSE @]
                      ELSE [rdCall EXCEPT !.layout = layout]
  /\ rdRes' = Render(rdCall')
  /\ UNCHANGED <<ioVars, gzVars, pkVars>>

RdNext == DoWriteSvg \/ DoPlot \/ DoRenderAgain

\* ------------------------------------------------------------------------
\* Properties of rendering
\* ------------------------------------------------------------------------

IsEdgeItem(it) == it.kind \in {"line", "arrow", "arc", "segment", "arrowhead"}

IsShapeItem(it) == it.kind \in {"path", "circle", "rect", "disc"}

IsLabelItem(it) == it.kind \in {"text", "label"}

C10_WitnessPlot ==
  /\ rdCall.op = "__plot__"
  /\ rdRes.raised = "none"
  /\ \E i, j, k \in DOMAIN rdRes.doc :
       /\ rdRes.doc[i].kind = "arrowhead"
       /\ rdRes.doc[j] = Item("disc", 2)
       /\ rdRes.doc[k].kind = "label" /\ rdRes.doc[k].of = 0
       /\ i < j /\ j < k

\* C11: for every directed graph a completed render holds exactly one
\* straight segment and one arrowhead per non-loop edge, and exactly one
\* arc, no straight segment and no arrowhead per self-loop edge.
C11_SegmentArrowheadOrArcPerEdge ==
  LET Count(kinds, e) ==
        Cardinality({i \in DOMAIN rdRes.doc :
                       rdRes.doc[i].kind \in kinds /\ rdRes.doc[i].of = e})
      g == rdCall.graph
  IN (rdCall.op # "none" /\ rdRes.raised = "none" /\ g.directed) =>
       \A k \in DOMAIN g.edges :
         IF g.edges[k][1] # g.edges[k][2]
         THEN /\ Count({"line", "segment"}, k - 1) = 1
              /\ Count({"arrow", "arrowhead"}, k - 1) = 1
              /\ Count({"arc"}, k - 1) = 0
         ELSE /\ Count({"arc"}, k - 1) = 1
              /\ Count({"line", "segment"}, k - 1) = 0
              /\ Count({"arrow", "arrowhead"}, k - 1) = 0

\* C12: rendering a layout with a zero-extent axis (all points share x,
\* y or both, a single-vertex layout included) never raises a division
\* error, in Graph.__plot__ and in Graph.write_svg.
C12_NoDivisionErrorOnZeroExtent ==
  (rdCall.op # "none" /\ rdCall.layout # <<>> /\ ZeroExtent(rdCall.layout))
    => rdRes.raised # "ZeroDivisionError"

\* C13: every validation failure of Graph.write_svg (font size with ';',
\* non-positive width or height) is raised before the target is opened
\* and nothing is written; and every write_svg call either raises before
\* opening the target or writes a complete document that ends with the
\* closing tags.
C13_RaisesBeforeOpenOrWritesAll ==
  rdCall.op = "write_svg" =>
    /\ rdRes.raised \in {"ValueError(size)", "ValueError(font size)"}
         => ~rdRes.opened /\ rdRes.doc = <<>>
    /\ \/ rdRes.raised # "none" /\ ~rdRes.opened
       \/ /\ rdRes.raised = "none" /\ rdRes.closed
          /\ rdRes.doc # <<>>
          /\ rdRes.doc[Len(rdRes.doc)].kind = "epilogue"

\* C14: a vertex whose resolved shape code is not 0, 1 or 2 is rejected
\* with an error: no render of such a graph completes normally.
C14_UnknownShapeRejected ==
  (rdCall.op = "write_svg" /\ rdRes.raised = "none") =>
    LET shapes == SvgAttribute(rdCall.graph.vs, rdCall.shapes,
                               [i \in 1..rdCall.graph.n |-> 1])
    IN \A k \in 1..rdCall.graph.n : shapes[k] \in {0, 1, 2}

\* C15: in every render path, when no label value is supplied and the
\* graph has no label attribute the label of vertex i is the ordinal
\* i+1, and when labels are disabled (None) every label is empty.
C15_DefaultLabelsAreOrdinals ==
  LET supplied == IF rdCall.op = "write_svg" THEN rdCall.labels
                  ELSE IF "vertex_label" \in rdCall.kwds.keys
                       THEN rdCall.kwds.vertex_label ELSE NameParam("label")
  IN (rdCall.op # "none" /\ rdRes.raised = "none") =>
       \A i \in DOMAIN rdRes.doc :
         IsLabelItem(rdRes.doc[i]) =>
           /\ (supplied = NameParam("label") /\ "label" \notin DOMAIN rdCall.graph.vs)
                => rdRes.doc[i].text = DigitOf(rdRes.doc[i].of + 1)
           /\ supplied = NoneParam => rdRes.doc[i].text = ""

\* C16: a render call leaves its inputs unchanged: afterwards the
\* caller's layout object holds the coordinates it held before, the
\* caller's label and colour lists are as they were, and a second render
\* of the same layout object starts from the coordinates of the first.
C16_InputsUnchanged ==
  rdCall.op # "none" =>
    /\ rdRes.layout = IF rdCall.op = "write_svg" \/ "layout" \in rdCall.kwds.keys
                      THEN rdCall.layout ELSE <<>>
    /\ rdCall.op = "write_svg" =>
         /\ rdRes.labels = rdCall.labels.vals
         /\ rdRes.colors = rdCall.colors.vals
    /\ rdPrev.reuse => rdCall.layout = rdPrev.call.layout

C17_WitnessRejected ==
  /\ rdCall.op = "write_svg"
  /\ rdCall.width = SomeInt(0)
  /\ rdCall.height = NoneInt
  /\ rdRes.raised = "ValueError(size)"

C20_WitnessPlot ==
  /\ rdPrev.call.op = "__plot__"
  /\ rdCall.layout # rdPrev.call.layout
  /\ BoundingBox(rdCall.layout) = BoundingBox(rdPrev.call.layout)
  /\ rdRes.scale = <<Q(290, 2), Q(190, 2)>>

\* C24: for a non-loop edge (u, v) the stroke's target end is moved back by
\* the vertex size along the edge exactly when the graph is directed (it
\* ends at v's centre in an undirected graph), and the arrowhead of a
\* directed edge is placed at v's centre.
C24_ShortenedIffDirected ==
  \A i \in DOMAIN rdRes.doc :
    LET it == rdRes.doc[i]
        isStroke == it.kind \in {"line", "segment"}
        isHead == it.kind \in {"arrow", "arrowhead"}
    IN (isStroke \/ isHead) =>
         LET e == rdCall.graph.edges[it.of + 1]
         IN e[1] # e[2] =>
              /\ isStroke => (it.back > 0 <=> rdCall.graph.directed)
              /\ isStroke /\ rdCall.op = "write_svg" /\ rdCall.graph.directed
                   => it.back = rdCall.vertex_size
              /\ isHead => it.back = 0

\* C25: for a layout with an extent on both axes and zero margins, the
\* normalization maps the bounding box of the layout exactly onto a
\* rectangle of (width - 2*maxVertexSize) by (height - 2*maxVertexSize)
\* centred on the surface, so every vertex centre is at least
\* maxVertexSize away from each border.
C25_BoxFillsDrawingArea ==
  (/\ rdCall.op # "none" /\ rdRes.scale # <<>> /\ ~ZeroExtent(rdCall.layout)
   /\ rdCall.op = "__plot__" => "margin" \notin rdCall.kwds.keys) =>
    LET box == BoundingBox(rdCall.layout)
        svg == rdCall.op = "write_svg"
        mvs == IF svg THEN rdCall.vertex_size ELSE 10
        minus(a, b) == QAdd(a, QMul(Q(-1, 1), b))
        \* where a coordinate ends up on the surface: write_svg draws
        \* inside a group translated to the centre of the surface
        pos(dim, x) ==
          IF svg
          THEN QAdd(Q(rdRes.surface[dim], 2),
                    QMul(minus(x, rdRes.shift[dim]), rdRes.scale[dim]))
          ELSE QAdd(QMul(x, rdRes.scale[dim]), rdRes.shift[dim])
    IN \A dim \in 1..2 :
         LET lo == pos(dim, box.min[dim])
             hi == pos(dim, box.max[dim])
         IN /\ minus(hi, lo) = Q(rdRes.surface[dim] - 2 * mvs, 1)
            /\ QAdd(hi, lo) = Q(rdRes.surface[dim], 1)
            /\ \A i \in DOMAIN rdCall.layout :
                 /\ QLe(Q(mvs, 1), pos(dim, rdCall.layout[i][dim]))
                 /\ QLe(pos(dim, rdCall.layout[i][dim]),
                        Q(rdRes.surface[dim] - mvs, 1))

\* C26: write_svg resolves labels, vertex colours, vertex shapes and edge
\* colours by one policy (attribute values, the default everywhere when the
\* attribute is missing, a list as given with the missing positions filled
\* by the default), so each resolved sequence has an entry for every vertex
\* (edge) and the drawing loops never index past the end of one.
C26_ResolvedSequencesCoverAll ==
  (rdCall.op = "write_svg" /\ rdRes.opened /\ rdCall.layout # <<>>
     /\ ~ZeroExtent(rdCall.layout)) =>
    LET g == rdCall.graph
        ls == PadLabels(SvgLabels(g, rdCall.labels), g.n)
        cs == PadColors(SvgAttribute(g.vs, rdCall.colors, [i \in 1..g.n |-> <<"red">>]), g.n)
        ss == SvgAttribute(g.vs, rdCall.shapes, [i \in 1..g.n |-> 1])
        ecs == SvgAttribute(g.es, rdCall.edge_colors, [i \in DOMAIN g.edges |-> "black"])
    IN /\ Len(ls) >= g.n
       /\ Len(cs) >= g.n
       /\ Len(ss) >= g.n
       /\ Len(ecs) >= Len(g.edges)
       /\ rdRes.raised # "IndexError"

\* C27: the margin handling at the start of __plot__ terminates for every
\* margin the caller can pass (a number, or a sequence of any length, the
\* empty one included) and yields exactly four values; a sequence of one
\* or two values is repeated to fill the four sides.
C27_MarginYieldsFourSides ==
  (rdCall.op = "__plot__" /\ "margin" \in rdCall.kwds.keys) =>
    LET given == rdCall.kwds.margin.vals
        sides == PlotMargin(given)
    IN /\ rdRes.raised # "never returns"
       /\ sides.done
       /\ Len(sides.margin) = 4
       /\ Len(given) \in 1..2 =>
            \A i \in 1..4 : sides.margin[i] = given[((i - 1) % Len(given)) + 1]

\* ------------------------------------------------------------------------
\* Pickling: Graph.write_pickle
\* ------------------------------------------------------------------------

\* cPickle.dumps(self, version): the pickle of the graph in the protocol
\* asked for; a negative version selects the highest protocol
PickleDumps(g, version) ==
  [graph |-> g, protocol |-> IF version < 0 THEN 2 ELSE version]

\* self.write_pickle(fname, version).  fname is "None", "name" (a file
\* name), "file" (an open file object) or "filelike" (an open stream that
\* is not a file object); file and stream are the file at that name and
\* the caller's stream before the call.
write_pickle(g, fname, version, file, stream) ==
  LET dump == PickleDumps(g, version)
      done(raised, result, f, st, handle) ==
        [raised |-> raised, result |-> result, file |-> f, stream |-> st,
         handle |-> handle]
  IN IF fname = "None"
       THEN done("none", <<dump>>, file, stream, "none")
     ELSE IF fname = "name"
       \* file_was_opened = True; open(fname, 'wb'); dump; close
       THEN done("none", <<>>, [exists |-> TRUE, data |-> <<dump>>], stream,
                 "closed")
     ELSE IF fname = "filelike"
       \* not a file object: taken for a name, open(fname, 'wb') refuses it
       THEN done("TypeError", <<>>, file, stream, "none")
     \* a file object: the dump is written, then file_was_opened is read
     \* without ever having been bound
     ELSE done("UnboundLocalError", <<>>, file,
               [stream EXCEPT !.data = Append(@, dump)], "none")

PkInit ==
  /\ pkFile = [exists |-> FALSE, data |-> <<>>]
  /\ pkStream = [open |-> TRUE, data |-> <<>>]
  /\ pkCall = [op |-> "none"]
  /\ pkRes = [raised |-> "none", result |-> <<>>, file |-> pkFile,
              stream |-> pkStream, handle |-> "none"]

\* graph.write_pickle(fname, version)
DoWritePickle ==
  /\ Len(pkStream.data) < MaxDumps
  /\ \E g \in Graphs, version \in {-1, 0, 2},
        fname \in {"None", "name", "file", "filelike"} :
       /\ pkCall' = [op |-> "write_pickle", graph |-> g, fname |-> fname,
                     version |-> version, stream |-> pkStream]
       /\ pkRes' = write_pickle(g, fname, version, pkFile, pkStream)
  /\ pkFile' = pkRes'.file
  /\ pkStream' = pkRes'.stream
  /\ UNCHANGED <<ioVars, gzVars, rdVars>>

\* C22: write_pickle completes without error for every documented kind of
\* target: None returns the pickled string; a file name is opened, written
\* and closed; an open stream receives the pickle, the call returns
\* normally and the stream stays open.
C22_EveryTargetCompletes ==
  pkCall.op = "write_pickle" =>
    LET dump == PickleDumps(pkCall.graph, pkCall.version)
    IN /\ pkRes.raised = "none"
       /\ pkCall.fname = "None" => pkRes.result = <<dump>>
       /\ pkCall.fname = "name" =>
            /\ pkFile = [exists |-> TRUE, data |-> <<dump>>]
            /\ pkRes.handle = "closed"
       /\ pkCall.fname \in {"file", "filelike"} =>
            /\ pkStream.data = Append(pkCall.stream.data, dump)
            /\ pkStream.open

\* ------------------------------------------------------------------------
\* The specifications
\* ------------------------------------------------------------------------

vars == <<ioVars, gzVars, rdVars, pkVars>>

\* Format resolution and dispatch
Init == IoInit /\ GzQuiet /\ RdQuiet /\ PkInit

Next == IoNext

Spec == Init /\ [][Next]_vars

\* The compressed codec
InitGz == GzInit /\ IoQuiet /\ RdQuiet /\ PkInit

NextGz == GzNext

SpecGz == InitGz /\ [][NextGz]_vars

\* Rendering
InitRender == RdInit /\ IoQuiet /\ GzQuiet /\ PkInit

NextRender == RdNext

SpecRender == InitRender /\ [][NextRender]_vars

\* Pickling
InitPickle == PkInit /\ IoQuiet /\ GzQuiet /\ RdQuiet

NextPickle == DoWritePickle

SpecPickle == InitPickle /\ [][NextPickle]_vars

====
